---- MODULE Spec2Model ----
(***************************************************************************)
(* Model of review-bot: the diff-to-structured-result pipeline.            *)
(*                                                                         *)
(*   - providers/base.py : parse_review_response and its helpers           *)
(*   - providers/claude.py : review (token usage, estimated cost)          *)
(*   - core/git_manager.py : get_diff, _process_diffs,                     *)
(*     format_diff_for_review                                              *)
(*   - core/review_manager.py : run_review, _filter_files,                 *)
(*     _serialize_result, _create_todo_items                               *)
(*   - core/todo_manager.py : create_todo, mark_completed, delete_todo     *)
(*                                                                         *)
(* Text is a sequence of one-character strings.  Characters outside ASCII  *)
(* are written as code point names ("U+1F534").                            *)
(***************************************************************************)
EXTENDS Integers, Sequences, FiniteSets, TLC

VARIABLES
    input,          \* argument of the parser function under check
    call,           \* which parser function has been applied ("none" before)
    ret,            \* its return value
    diffs,          \* ChangeSource: raw change records of the repository
    config,         \* ReviewConfig: include/exclude patterns, max files
    pc,             \* position of run_review
    git_diff,       \* GitDiff produced by normalization
    code_diff,      \* text produced by format_diff_for_review
    filtered_diff,  \* GitDiff produced by _filter_files
    console,        \* lines printed on the console
    prompt,         \* populated prompt context
    provider_calls, \* arguments of every provider.review call
    result,         \* ReviewResult returned by the provider
    review_files,   \* review files saved under output_dir
    todo_files,     \* TODO files written under output_dir/todo
    error,          \* error raised by run_review ("" when none)
    todo_dir,       \* the files of output_dir/todo, in directory order
    clock,          \* the second the wall clock shows
    calls,          \* the calls made on the TODO storage, with what they returned
    before          \* todo_dir as it was before the last call

parser_vars == <<input, call, ret>>
review_vars == <<diffs, config, pc, git_diff, code_diff, filtered_diff, console,
                 prompt, provider_calls, result, review_files, todo_files, error>>
todo_vars == <<todo_dir, clock, calls, before>>
vars == <<parser_vars, review_vars, todo_vars>>

---------------------------------------------------------------------------
(* Bounds of the model *)

\* most lines of a parser input
MaxLines == 4
\* most sections of a sectioned response
MaxSections == 2
\* most raw change records of a repository
MaxFiles == 3
\* largest max_files_per_review tried
MaxCap == 2
\* most calls made on the TODO storage
MaxCalls == 3
\* last second of the wall clock
MaxClock == 1

---------------------------------------------------------------------------
(* Python str operations *)

Chars(s) == [i \in 1..Len(s) |-> SubSeq(s, i, i)]

None == [none |-> TRUE, text |-> <<>>]
Str(t) == [none |-> FALSE, text |-> t]

\* characters that are not ASCII
RedCircle == "U+1F534"
GreenCircle == "U+1F7E2"
Bullet == "U+2022"

Whitespace == {" ", "\t", "\r", "\n"}
Digits == {"0", "1", "2", "3", "4", "5", "6", "7", "8", "9"}

UpperCase == Chars("ABCDEFGHIJKLMNOPQRSTUVWXYZ")
LowerCase == Chars("abcdefghijklmnopqrstuvwxyz")

LowerChar(c) ==
    IF \E i \in 1..Len(UpperCase) : UpperCase[i] = c
    THEN LowerCase[CHOOSE i \in 1..Len(UpperCase) : UpperCase[i] = c]
    ELSE c

\* str.lower()
Lower(s) == [i \in 1..Len(s) |-> LowerChar(s[i])]

Drop(s, n) == SubSeq(s, n + 1, Len(s))
Take(s, n) == SubSeq(s, 1, n)

\* s.startswith(p)
StartsWith(s, p) == Len(p) <= Len(s) /\ Take(s, Len(p)) = p

\* p in s
Contains(s, p) == \E i \in 0..(Len(s) - Len(p)) : SubSeq(s, i + 1, i + Len(p)) = p

\* index of the first occurrence of p in s, 0 when there is none
Find(s, p) ==
    IF Contains(s, p)
    THEN 1 + CHOOSE i \in 0..(Len(s) - Len(p)) :
                 /\ SubSeq(s, i + 1, i + Len(p)) = p
                 /\ \A j \in 0..(i - 1) : SubSeq(s, j + 1, j + Len(p)) # p
    ELSE 0

\* length of the longest prefix of s made of characters of set
RECURSIVE Span(_, _)
Span(s, set) == IF s # <<>> /\ s[1] \in set THEN 1 + Span(Tail(s), set) ELSE 0

RECURSIVE LStrip(_)
LStrip(s) == IF s # <<>> /\ s[1] \in Whitespace THEN LStrip(Tail(s)) ELSE s

RECURSIVE RStrip(_)
RStrip(s) ==
    IF s # <<>> /\ s[Len(s)] \in Whitespace THEN RStrip(Take(s, Len(s) - 1)) ELSE s

\* str.strip()
Strip(s) == RStrip(LStrip(s))

\* s.split(sep) for a one-character sep: never empty, "" gives [""]
RECURSIVE Split(_, _)
Split(s, sep) ==
    LET i == Find(s, <<sep>>)
    IN  IF i = 0 THEN <<s>> ELSE <<Take(s, i - 1)>> \o Split(Drop(s, i), sep)

\* sep.join(parts)
RECURSIVE Join(_, _)
Join(parts, sep) ==
    IF parts = <<>> THEN <<>>
    ELSE IF Len(parts) = 1 THEN parts[1]
    ELSE parts[1] \o sep \o Join(Tail(parts), sep)

\* str(n) for n >= 0
RECURSIVE IntToStr(_)
IntToStr(n) ==
    LET d == Chars("0123456789")[(n % 10) + 1]
    IN  IF n < 10 THEN <<d>> ELSE IntToStr(n \div 10) \o <<d>>

---------------------------------------------------------------------------
(* providers/base.py *)

\* the non-ASCII characters as the source file spells them
MojibakeRed == <<"U+00F0", "U+0178", "U+201D", "U+00B4">>
MojibakeYellow == <<"U+00F0", "U+0178", "U+0178", "U+00A1">>
MojibakeGreen == <<"U+00F0", "U+0178", "U+0178", "U+00A2">>
MojibakeBullet == <<"U+00E2", "U+20AC", "U+00A2">>

\* the character class [-*...] of the list marker pattern
ListMarkerClass == {"-", "*"} \cup {MojibakeBullet[i] : i \in 1..Len(MojibakeBullet)}

\* the character class of the first substitution of _clean_issue_text
GlyphClass ==
    {MojibakeRed[i] : i \in 1..Len(MojibakeRed)}
    \cup {MojibakeYellow[i] : i \in 1..Len(MojibakeYellow)}
    \cup {MojibakeGreen[i] : i \in 1..Len(MojibakeGreen)}

NoMatch == [matched |-> FALSE, group |-> <<>>]

\* re.match(r'^#{1,3}\s+(.+)$', s) for a stripped line s without newline
HeaderMatch(s) ==
    LET h == Span(s, {"#"})
        w == Span(Drop(s, h), Whitespace)
    IN  IF h \in 1..3 /\ w >= 1 /\ Len(s) > h + w
        THEN [matched |-> TRUE, group |-> Drop(s, h + w)]
        ELSE NoMatch

\* sections[key] = value on an insertion-ordered dict
DictSet(sections, key, value) ==
    IF \E i \in 1..Len(sections) : sections[i].title = key
    THEN [i \in 1..Len(sections) |->
            IF sections[i].title = key
            THEN [title |-> key, content |-> value]
            ELSE sections[i]]
    ELSE Append(sections, [title |-> key, content |-> value])

\* SaveSection with a fault: the lines of a section are joined by a space
SaveSection_JoinSpace(sections, current_section, current_content) ==
    IF current_content # <<>>
    THEN DictSet(sections, current_section, Join(current_content, <<" ">>))
    ELSE sections

SaveSection(sections, current_section, current_content) ==
    IF current_content # <<>>
    THEN DictSet(sections, current_section, Join(current_content, <<"\n">>))
    ELSE sections

RECURSIVE SplitLoop(_, _, _, _)
SplitLoop(lines, sections, current_section, current_content) ==
    IF lines = <<>>
    THEN SaveSection(sections, current_section, current_content)
    ELSE LET line == Head(lines)
             header_match == HeaderMatch(Strip(line))
         IN  IF header_match.matched
             THEN SplitLoop(Tail(lines),
                            SaveSection(sections, current_section, current_content),
                            header_match.group, <<>>)
             ELSE SplitLoop(Tail(lines), sections, current_section,
                            Append(current_content, line))

_split_into_sections(response) ==
    SplitLoop(Split(response, "\n"), <<>>, Chars("general"), <<>>)

\* re.match(r'^[-*...]\s+', s)
BulletMatchLen(s) ==
    IF s # <<>> /\ s[1] \in ListMarkerClass /\ Span(Tail(s), Whitespace) >= 1
    THEN 1 + Span(Tail(s), Whitespace)
    ELSE 0

\* re.match(r'^\d+\.\s+', s)
OrdinalMatchLen(s) ==
    LET d == Span(s, Digits)
    IN  IF d >= 1 /\ Len(s) > d /\ s[d + 1] = "." /\ Span(Drop(s, d + 1), Whitespace) >= 1
        THEN d + 1 + Span(Drop(s, d + 1), Whitespace)
        ELSE 0

RECURSIVE ExtractLoop(_)
ExtractLoop(lines) ==
    IF lines = <<>> THEN <<>>
    ELSE LET line == Strip(Head(lines))
             item1 == Drop(line, BulletMatchLen(line))
             item == Drop(item1, OrdinalMatchLen(item1))
         IN  (IF (BulletMatchLen(line) > 0 \/ OrdinalMatchLen(line) > 0) /\ item # <<>>
              THEN <<item>> ELSE <<>>)
             \o ExtractLoop(Tail(lines))

_extract_list_items(content) == ExtractLoop(Split(content, "\n"))

SeverityKeywords == <<Chars("critical"), Chars("major"), Chars("minor")>>

\* length of the keyword of (Critical|Major|Minor) that s starts with, ignoring case
KeywordLen(s) ==
    IF \E k \in 1..3 : StartsWith(Lower(s), SeverityKeywords[k])
    THEN Len(SeverityKeywords[CHOOSE k \in 1..3 : StartsWith(Lower(s), SeverityKeywords[k])])
    ELSE 0

Min(a, b) == IF a < b THEN a ELSE b

\* length of the match of r'\*?\*?(Critical|Major|Minor)\*?\*?:?\s*' at the start of s
SeverityMatchLen(s) ==
    LET k == Span(s, {"*"})
        kw == KeywordLen(Drop(s, k))
        after == Drop(s, k + kw)
        stars == Min(2, Span(after, {"*"}))
        colon == IF Len(after) > stars /\ after[stars + 1] = ":" THEN 1 ELSE 0
        ws == Span(Drop(after, stars + colon), Whitespace)
    IN  IF k <= 2 /\ kw > 0 THEN k + kw + stars + colon + ws ELSE 0

\* re.sub of the severity pattern by '', left to right
RECURSIVE SubSeverity(_)
SubSeverity(s) ==
    IF s = <<>> THEN <<>>
    ELSE IF SeverityMatchLen(s) > 0 THEN SubSeverity(Drop(s, SeverityMatchLen(s)))
    ELSE <<Head(s)>> \o SubSeverity(Tail(s))

_clean_issue_text(text) ==
    Strip(SubSeverity(SelectSeq(text, LAMBDA c : c \notin GlyphClass)))

\* the severity the line marks, "" when it is no marker
SeverityOf(line) ==
    IF Contains(line, MojibakeRed) \/ Contains(Lower(line), Chars("critical")) THEN "critical"
    ELSE IF Contains(line, MojibakeYellow) \/ Contains(Lower(line), Chars("major")) THEN "major"
    ELSE IF Contains(line, MojibakeGreen) \/ Contains(Lower(line), Chars("minor")) THEN "minor"
    ELSE ""

Issue(severity, description) ==
    [severity |-> severity, type |-> "general", file |-> None, line |-> None,
     description |-> description, suggestion |-> None, code_example |-> None]

\* current_issue is <<>> for None and <<issue>> otherwise
RECURSIVE IssuesLoop(_, _, _)
IssuesLoop(lines, issues, current_issue) ==
    IF lines = <<>> THEN issues \o current_issue
    ELSE LET line == Strip(Head(lines))
         IN  IF SeverityOf(line) # ""
             THEN IssuesLoop(Tail(lines), issues \o current_issue,
                             <<Issue(SeverityOf(line), _clean_issue_text(line))>>)
             ELSE IF current_issue # <<>> /\ line # <<>>
             THEN IssuesLoop(Tail(lines), issues,
                             <<[current_issue[1] EXCEPT
                                  !.description = @ \o <<" ">> \o line]>>)
             ELSE IssuesLoop(Tail(lines), issues, current_issue)

_parse_issues(content) == IssuesLoop(Split(content, "\n"), <<>>, <<>>)

HighWords == {Chars("urgent"), Chars("critical"), Chars("important")}
LowWords == {Chars("minor"), Chars("optional"), Chars("consider")}

\* PriorityOf with a fault: the Low keywords are looked for first
PriorityOf_LowFirst(item) ==
    IF \E word \in LowWords : Contains(Lower(item), word) THEN "low"
    ELSE IF \E word \in HighWords : Contains(Lower(item), word) THEN "high"
    ELSE "medium"

PriorityOf(item) ==
    IF \E word \in HighWords : Contains(Lower(item), word) THEN "high"
    ELSE IF \E word \in LowWords : Contains(Lower(item), word) THEN "low"
    ELSE "medium"

\* item[:50]
TitleLen == 50

TitleOf(item) ==
    IF Contains(item, <<".">>) THEN Split(item, ".")[1] ELSE Take(item, Min(TitleLen, Len(item)))

\* Suggestion with a fault: the identifier counts from zero
Suggestion_ZeroBased(i, item) ==
    [id |-> Chars("suggestion-") \o IntToStr(i - 1),
     title |-> TitleOf(item),
     description |-> item,
     files |-> <<>>,
     priority |-> PriorityOf(item),
     completed |-> FALSE,
     example |-> None]

Suggestion(i, item) ==
    [id |-> Chars("suggestion-") \o IntToStr(i),
     title |-> TitleOf(item),
     description |-> item,
     files |-> <<>>,
     priority |-> PriorityOf(item),
     completed |-> FALSE,
     example |-> None]

_parse_suggestions(content) ==
    LET items == _extract_list_items(content)
    IN  [i \in 1..Len(items) |-> Suggestion(i, items[i])]

\* ReviewResult with a fault: the raw response is not retained, provider and model swap
ReviewResult_NoRaw(provider, model, raw_response) ==
    [provider |-> model, model |-> provider, summary |-> <<>>, strengths |-> <<>>,
     issues |-> <<>>, suggestions |-> <<>>, raw_response |-> None]

ReviewResult(provider, model, raw_response) ==
    [provider |-> provider, model |-> model, summary |-> <<>>, strengths |-> <<>>,
     issues |-> <<>>, suggestions |-> <<>>, raw_response |-> raw_response]

\* ParseSection with a fault: the Issues words are looked for before 'summary'
ParseSection_IssueFirst(res, section) ==
    LET title_lower == Lower(section.title)
    IN  IF Contains(title_lower, Chars("issue")) \/ Contains(title_lower, Chars("problem"))
        THEN [res EXCEPT !.issues = _parse_issues(section.content)]
        ELSE IF Contains(title_lower, Chars("summary"))
        THEN [res EXCEPT !.summary = Strip(section.content)]
        ELSE IF Contains(title_lower, Chars("strength"))
        THEN [res EXCEPT !.strengths = _extract_list_items(section.content)]
        ELSE IF Contains(title_lower, Chars("suggestion"))
                \/ Contains(title_lower, Chars("improvement"))
        THEN [res EXCEPT !.suggestions = _parse_suggestions(section.content)]
        ELSE res

\* the body of the loop over sections.items()
ParseSection(res, section) ==
    LET title_lower == Lower(section.title)
    IN  IF Contains(title_lower, Chars("summary"))
        THEN [res EXCEPT !.summary = Strip(section.content)]
        ELSE IF Contains(title_lower, Chars("strength"))
        THEN [res EXCEPT !.strengths = _extract_list_items(section.content)]
        ELSE IF Contains(title_lower, Chars("issue")) \/ Contains(title_lower, Chars("problem"))
        THEN [res EXCEPT !.issues = _parse_issues(section.content)]
        ELSE IF Contains(title_lower, Chars("suggestion"))
                \/ Contains(title_lower, Chars("improvement"))
        THEN [res EXCEPT !.suggestions = _parse_suggestions(section.content)]
        ELSE res

RECURSIVE ParseSections(_, _)
ParseSections(res, sections) ==
    IF sections = <<>> THEN res
    ELSE ParseSections(ParseSection(res, Head(sections)), Tail(sections))

\* what the try block does: the exception it raises ("" when none) and the result
\* it has built; response.split of a response that is no string raises AttributeError
TryParse(res, response) ==
    IF response.none
    THEN [exc |-> Chars("'NoneType' object has no attribute 'split'"), res |-> res]
    ELSE [exc |-> <<>>, res |-> ParseSections(res, _split_into_sections(response.text))]

\* the except block
ParseFailed(res, exc) ==
    [res EXCEPT !.summary = Chars("Parsing error: ") \o exc,
                !.issues = <<>>,
                !.suggestions = <<>>]

\* parse_review_response with a fault: no except block
parse_review_response_NoExcept(response, provider, model) ==
    LET try == TryParse(ReviewResult(provider, model, response), response)
    IN  [raised |-> try.exc # <<>>, value |-> try.res]

\* raised: an exception leaves the function; value: the ReviewResult returned
parse_review_response(response, provider, model) ==
    LET try == TryParse(ReviewResult(provider, model, response), response)
    IN  [raised |-> FALSE,
         value |-> IF try.exc # <<>> THEN ParseFailed(try.res, try.exc) ELSE try.res]

---------------------------------------------------------------------------
(* core/git_manager.py *)

\* a raw change record (git.diff.Diff).  A path of <<>> is None; diff holds the
\* patch bytes: data <<>> is None or b'', valid tells whether they decode as UTF-8
RawDiff(a_path, b_path, new_file, deleted_file, renamed_file, diff) ==
    [a_path |-> a_path, b_path |-> b_path, new_file |-> new_file,
     deleted_file |-> deleted_file, renamed_file |-> renamed_file, diff |-> diff]

Utf8(t) == [valid |-> TRUE, data |-> t]
NoBytes == [valid |-> TRUE, data |-> <<>>]
BadBytes == [valid |-> FALSE, data |-> <<"0xFF", "0xFE">>]

\* diff.diff.decode('utf-8') inside try/except: the patch, None when there are
\* no bytes or the decode raises
DecodePatch(diff) ==
    IF diff.data # <<>> /\ diff.valid THEN Str(diff.data) ELSE None

StatusOf(diff) ==
    IF diff.new_file THEN "added"
    ELSE IF diff.deleted_file THEN "deleted"
    ELSE IF diff.renamed_file THEN "renamed"
    ELSE "modified"

\* the number of lines that start with sign and not with three of it
RECURSIVE CountLines(_, _)
CountLines(lines, sign) ==
    IF lines = <<>> THEN 0
    ELSE (IF StartsWith(Head(lines), <<sign>>)
             /\ ~StartsWith(Head(lines), <<sign, sign, sign>>)
          THEN 1 ELSE 0) + CountLines(Tail(lines), sign)

\* Additions with a fault: a '+++' header line is counted too
Additions_WithHeader(patch) ==
    IF ~patch.none /\ patch.text # <<>>
    THEN Len(SelectSeq(Split(patch.text, "\n"), LAMBDA line : StartsWith(line, <<"+">>)))
    ELSE 0

Additions(patch) ==
    IF ~patch.none /\ patch.text # <<>> THEN CountLines(Split(patch.text, "\n"), "+") ELSE 0

Deletions(patch) ==
    IF ~patch.none /\ patch.text # <<>> THEN CountLines(Split(patch.text, "\n"), "-") ELSE 0

\* _process_single_diff with a fault: a decode error is not caught where it
\* is raised, so the outer except returns None for the record
_process_single_diff_NoInnerTry(diff) ==
    LET file_path == IF diff.b_path # <<>> THEN diff.b_path ELSE diff.a_path
        patch == DecodePatch(diff.diff)
    IN  IF file_path = <<>> \/ ~diff.diff.valid THEN <<>>
        ELSE <<[path |-> file_path,
                status |-> StatusOf(diff),
                additions |-> Additions(patch),
                deletions |-> Deletions(patch),
                patch |-> patch]>>

\* <<>> when the record has no path (the function returns None), else <<FileChange>>
_process_single_diff(diff) ==
    LET file_path == IF diff.b_path # <<>> THEN diff.b_path ELSE diff.a_path
        patch == DecodePatch(diff.diff)
    IN  IF file_path = <<>> THEN <<>>
        ELSE <<[path |-> file_path,
                status |-> StatusOf(diff),
                additions |-> Additions(patch),
                deletions |-> Deletions(patch),
                patch |-> patch]>>

RECURSIVE ProcessLoop(_)
ProcessLoop(ds) ==
    IF ds = <<>> THEN <<>>
    ELSE _process_single_diff(Head(ds)) \o ProcessLoop(Tail(ds))

RECURSIVE Total(_, _)
Total(files, field) ==
    IF files = <<>> THEN 0 ELSE Head(files)[field] + Total(Tail(files), field)

GitStats(files_changed, insertions, deletions) ==
    [files_changed |-> files_changed, insertions |-> insertions, deletions |-> deletions]

GitDiff(files, stats) == [files |-> files, stats |-> stats]

_process_diffs(ds) ==
    LET files == ProcessLoop(ds)
    IN  GitDiff(files,
                GitStats(Len(files), Total(files, "additions"), Total(files, "deletions")))

\* how a call ends: with the exception whose message is error, or with value
Raise(message) == [raised |-> TRUE, error |-> message, value |-> <<>>]
Return(value) == [raised |-> FALSE, error |-> <<>>, value |-> value]

\* the repo property: Repo(repo_path) of a directory that holds no repository
\* raises InvalidGitRepositoryError, which is turned into a ValueError
repo_property(repo) ==
    IF repo.is_repo THEN Return(repo)
    ELSE Raise(Chars("Not a git repository: ") \o repo.repo_path)

is_git_repository(repo) == ~repo_property(repo).raised

\* repo.commit(commit_hash): the commit, or the library's BadName error
Commit(repo, commit_hash) ==
    IF \E c \in repo.commits : c.hexsha = commit_hash
    THEN Return(CHOOSE c \in repo.commits : c.hexsha = commit_hash)
    ELSE Raise(Chars("Ref '") \o commit_hash \o Chars("' did not resolve to an object"))

\* the try block of _get_commit_diff; commit.diffs are the records of
\* commit.diff(parent), or of commit.diff(None) for an initial commit
TryCommitDiff(repo, commit_hash) ==
    IF repo_property(repo).raised THEN Raise(repo_property(repo).error)
    ELSE IF Commit(repo, commit_hash).raised THEN Raise(Commit(repo, commit_hash).error)
    ELSE Return(_process_diffs(Commit(repo, commit_hash).value.diffs))

\* _get_commit_diff with a fault: no except block
_get_commit_diff_NoExcept(repo, commit_hash) == TryCommitDiff(repo, commit_hash)

_get_commit_diff(repo, commit_hash) ==
    LET try == TryCommitDiff(repo, commit_hash)
    IN  IF try.raised
        THEN Raise(Chars("Invalid commit hash: ") \o commit_hash \o Chars(": ") \o try.error)
        ELSE try

_get_staged_diff(repo) ==
    IF repo_property(repo).raised THEN Raise(repo_property(repo).error)
    ELSE Return(_process_diffs(repo.staged))

\* _get_working_diff with a fault: a path is listed once
RECURSIVE Dedup(_, _)
Dedup(ds, seen) ==
    IF ds = <<>> THEN <<>>
    ELSE LET file_path == IF Head(ds).b_path # <<>> THEN Head(ds).b_path ELSE Head(ds).a_path
         IN  IF file_path \in seen THEN Dedup(Tail(ds), seen)
             ELSE <<Head(ds)>> \o Dedup(Tail(ds), seen \cup {file_path})

_get_working_diff_Dedup(repo) ==
    IF repo_property(repo).raised THEN Raise(repo_property(repo).error)
    ELSE Return(_process_diffs(Dedup(repo.staged \o repo.unstaged, {})))

_get_working_diff(repo) ==
    IF repo_property(repo).raised THEN Raise(repo_property(repo).error)
    ELSE Return(_process_diffs(repo.staged \o repo.unstaged))

\* commit_hash is <<>> for None
get_diff(repo, staged, commit_hash) ==
    LET try == IF commit_hash # <<>> THEN _get_commit_diff(repo, commit_hash)
               ELSE IF staged THEN _get_staged_diff(repo)
               ELSE _get_working_diff(repo)
    IN  IF try.raised THEN Raise(Chars("Failed to get git diff: ") \o try.error)
        ELSE try

\* the grave accent and the code fence made of three
Backtick == "U+0060"
Fence == <<Backtick, Backtick, Backtick>>

FormatFile(file) ==
    << Chars("## ") \o file.path \o Chars(" (") \o Chars(file.status) \o Chars(")"),
       Chars("**+") \o IntToStr(file.additions) \o Chars(" -")
           \o IntToStr(file.deletions) \o Chars("**\n") >>
    \o (IF ~file.patch.none /\ file.patch.text # <<>>
        THEN <<Fence \o Chars("diff"), file.patch.text, Fence \o Chars("\n")>>
        ELSE <<>>)

RECURSIVE FormatLoop(_)
FormatLoop(files) ==
    IF files = <<>> THEN <<>> ELSE FormatFile(Head(files)) \o FormatLoop(Tail(files))

format_diff_for_review(diff) == Join(FormatLoop(diff.files), <<"\n">>)

---------------------------------------------------------------------------
(* core/review_manager.py *)

\* fnmatch.fnmatch(name, pat) for patterns of literals, '*' and '?'
RECURSIVE fnmatch(_, _)
fnmatch(name, pat) ==
    IF pat = <<>> THEN name = <<>>
    ELSE IF Head(pat) = "*"
    THEN \E k \in 0..Len(name) : fnmatch(Drop(name, k), Tail(pat))
    ELSE IF Head(pat) = "?"
    THEN name # <<>> /\ fnmatch(Tail(name), Tail(pat))
    ELSE name # <<>> /\ Head(name) = Head(pat) /\ fnmatch(Tail(name), Tail(pat))

MatchesAny(path, patterns) == \E i \in 1..Len(patterns) : fnmatch(path, patterns[i])

\* FilterLoop with a fault: a file that matches an include pattern is kept whatever
\* exclude pattern it matches
RECURSIVE FilterLoop_IncludeWins(_, _)
FilterLoop_IncludeWins(files, cfg) ==
    IF files = <<>> THEN <<>>
    ELSE (IF MatchesAny(Head(files).path, cfg.include_patterns)
          THEN <<Head(files)>> ELSE <<>>)
         \o FilterLoop_IncludeWins(Tail(files), cfg)

\* the loop over git_diff.files
RECURSIVE FilterLoop(_, _)
FilterLoop(files, cfg) ==
    IF files = <<>> THEN <<>>
    ELSE LET file == Head(files)
             excluded == MatchesAny(file.path, cfg.exclude_patterns)
             included == MatchesAny(file.path, cfg.include_patterns)
         IN  (IF ~excluded /\ included THEN <<file>> ELSE <<>>)
             \o FilterLoop(Tail(files), cfg)

\* LimitFiles with a fault: the last max_files_per_review files are kept
LimitFiles_Last(filtered_files, cfg) ==
    IF Len(filtered_files) > cfg.max_files_per_review
    THEN Drop(filtered_files, Len(filtered_files) - cfg.max_files_per_review)
    ELSE filtered_files

\* the files kept after the limit on their number
LimitFiles(filtered_files, cfg) ==
    IF Len(filtered_files) > cfg.max_files_per_review
    THEN Take(filtered_files, cfg.max_files_per_review)
    ELSE filtered_files

\* what _filter_files prints
FilterWarnings(diff, cfg) ==
    IF Len(FilterLoop(diff.files, cfg)) > cfg.max_files_per_review
    THEN <<Chars("Warning: Limited to ") \o IntToStr(cfg.max_files_per_review)
             \o Chars(" files")>>
    ELSE <<>>

_filter_files(diff, cfg) ==
    GitDiff(LimitFiles(FilterLoop(diff.files, cfg), cfg), diff.stats)

RECURSIVE Paths(_)
Paths(files) == IF files = <<>> THEN <<>> ELSE <<Head(files).path>> \o Paths(Tail(files))

\* the context PromptManager renders the template with
populate_prompt(diff, code) ==
    [files_changed |-> diff.stats.files_changed,
     lines_added |-> diff.stats.insertions,
     lines_deleted |-> diff.stats.deletions,
     files_list |-> Paths(diff.files),
     code_diff |-> code]

RECURSIVE TodoItems(_, _)
TodoItems(suggestions, review_id) ==
    IF suggestions = <<>> THEN <<>>
    ELSE <<[id |-> Head(suggestions).id,
            title |-> Head(suggestions).title,
            description |-> Head(suggestions).description,
            files |-> Head(suggestions).files,
            priority |-> Head(suggestions).priority,
            completed |-> FALSE,
            review_id |-> review_id]>>
         \o TodoItems(Tail(suggestions), review_id)

---------------------------------------------------------------------------
(* providers/claude.py: review, and review_manager.py: _serialize_result *)

\* TokenUsage(input_tokens, output_tokens, total_tokens)
TokenUsage(input_tokens, output_tokens) ==
    [input_tokens |-> input_tokens,
     output_tokens |-> output_tokens,
     total_tokens |-> input_tokens + output_tokens]

\* in millionths of a dollar: 0.003 and 0.015 dollars for a thousand tokens
estimate_cost(tokens) ==
    ((tokens * 7) \div 10) * 3 + ((tokens * 3) \div 10) * 15

\* review after the API call: the parsed result, stamped by ReviewResult's
\* default timestamp, with the token usage when the response carries one;
\* usage is <<>> for a response without usage and <<usage>> otherwise
review(content, name, model, usage, now) ==
    LET parsed == parse_review_response(content, name, model).value
        tokens == IF usage = <<>> THEN <<>>
                  ELSE <<TokenUsage(usage[1].input_tokens, usage[1].output_tokens)>>
    IN  [timestamp |-> now,
         tokens |-> tokens,
         estimated_cost |-> IF usage = <<>> THEN <<>>
                            ELSE <<estimate_cost(tokens[1].total_tokens)>>] @@ parsed

\* a datetime: the seconds (fewer than ten) and microseconds after
\* 2024-01-15 10:30:00
Datetime(sec, usec) == [sec |-> sec, usec |-> usec]

RECURSIVE PadZero(_, _)
PadZero(s, width) == IF Len(s) >= width THEN s ELSE PadZero(<<"0">> \o s, width)

\* datetime.isoformat()
isoformat(t) ==
    Chars("2024-01-15T10:30:0") \o IntToStr(t.sec) \o <<".">> \o PadZero(IntToStr(t.usec), 6)

DigitValue(c) == CHOOSE n \in 0..9 : IntToStr(n) = <<c>>

RECURSIVE ParseInt(_)
ParseInt(s) ==
    IF s = <<>> THEN 0
    ELSE ParseInt(SubSeq(s, 1, Len(s) - 1)) * 10 + DigitValue(s[Len(s)])

\* datetime.fromisoformat()
fromisoformat(s) == Datetime(DigitValue(s[19]), ParseInt(SubSeq(s, 21, Len(s))))

\* datetime.strftime("%Y%m%d_%H%M%S")
strftime(t) == Chars("20240115_10300") \o IntToStr(t.sec)

\* the value of a member of a str Enum
EnumValue(member) == Chars(member)

SerializeIssue(issue) ==
    [severity |-> EnumValue(issue.severity),
     type |-> issue.type,
     file |-> issue.file,
     line |-> issue.line,
     description |-> issue.description,
     suggestion |-> issue.suggestion,
     code_example |-> issue.code_example]

SerializeSuggestion(suggestion) ==
    [id |-> suggestion.id,
     title |-> suggestion.title,
     description |-> suggestion.description,
     files |-> suggestion.files,
     priority |-> EnumValue(suggestion.priority),
     completed |-> suggestion.completed,
     example |-> suggestion.example]

\* the dictionary handed to json.dumps; <<>> stands for null
_serialize_result(r) ==
    [provider |-> r.provider,
     model |-> r.model,
     timestamp |-> isoformat(r.timestamp),
     summary |-> r.summary,
     strengths |-> r.strengths,
     issues |-> [i \in 1..Len(r.issues) |-> SerializeIssue(r.issues[i])],
     suggestions |-> [i \in 1..Len(r.suggestions) |-> SerializeSuggestion(r.suggestions[i])],
     tokens |-> IF r.tokens # <<>>
                THEN <<[input |-> r.tokens[1].input_tokens,
                        output |-> r.tokens[1].output_tokens,
                        total |-> r.tokens[1].total_tokens]>>
                ELSE <<>>,
     estimated_cost |-> r.estimated_cost]

---------------------------------------------------------------------------
(* core/todo_manager.py, and review_manager.py: _create_todo_items *)

\* Priority(value)
PriorityMember(value) == CHOOSE p \in {"high", "medium", "low"} : EnumValue(p) = value

\* the dictionary of a stored TODO item; <<>> is a due_date of None
_serialize_todo(todo) ==
    [id |-> todo.id,
     title |-> todo.title,
     description |-> todo.description,
     files |-> todo.files,
     priority |-> EnumValue(todo.priority),
     completed |-> todo.completed,
     example |-> todo.example,
     created_at |-> isoformat(todo.created_at),
     review_id |-> todo.review_id,
     assignee |-> todo.assignee,
     due_date |-> IF todo.due_date # <<>> THEN isoformat(todo.due_date) ELSE <<>>]

_parse_todo_item(data) ==
    [id |-> data.id,
     title |-> data.title,
     description |-> data.description,
     files |-> data.files,
     priority |-> PriorityMember(data.priority),
     completed |-> data.completed,
     example |-> data.example,
     created_at |-> fromisoformat(data.created_at),
     review_id |-> data.review_id,
     assignee |-> data.assignee,
     due_date |-> IF data.due_date # <<>> THEN fromisoformat(data.due_date) ELSE <<>>]

\* the directory is the sequence of its files [name, data], data being the
\* JSON list a file holds; glob yields the files in this order, a new file
\* comes last
FileIndex(dir, name) ==
    IF \E k \in 1..Len(dir) : dir[k].name = name
    THEN CHOOSE k \in 1..Len(dir) : dir[k].name = name
    ELSE 0

\* todo_file.write_text(json.dumps(data))
write_text(dir, name, data) ==
    IF FileIndex(dir, name) # 0
    THEN [dir EXCEPT ![FileIndex(dir, name)].data = data]
    ELSE Append(dir, [name |-> name, data |-> data])

\* todo_file.unlink()
RECURSIVE unlink(_, _)
unlink(dir, name) ==
    IF dir = <<>> THEN <<>>
    ELSE (IF Head(dir).name = name THEN <<>> ELSE <<Head(dir)>>) \o unlink(Tail(dir), name)

RECURSIVE LoadAll(_)
LoadAll(dir) ==
    IF dir = <<>> THEN <<>>
    ELSE [i \in 1..Len(Head(dir).data) |-> _parse_todo_item(Head(dir).data[i])]
         \o LoadAll(Tail(dir))

PriorityOrder(priority) ==
    IF priority = "high" THEN 0 ELSE IF priority = "medium" THEN 1 ELSE 2

\* the sort key of a sorts before the sort key of b:
\* (completed, priority_order, created_at)
KeyLess(a, b) ==
    IF a.completed # b.completed THEN ~a.completed
    ELSE IF PriorityOrder(a.priority) # PriorityOrder(b.priority)
    THEN PriorityOrder(a.priority) < PriorityOrder(b.priority)
    ELSE IF a.created_at.sec # b.created_at.sec THEN a.created_at.sec < b.created_at.sec
    ELSE a.created_at.usec < b.created_at.usec

RECURSIVE InsertSorted(_, _)
InsertSorted(sorted, todo) ==
    IF sorted = <<>> THEN <<todo>>
    ELSE IF KeyLess(todo, Head(sorted)) THEN <<todo>> \o sorted
    ELSE <<Head(sorted)>> \o InsertSorted(Tail(sorted), todo)

\* todos.sort(key=...): stable
RECURSIVE SortTodos(_, _)
SortTodos(todos, sorted) ==
    IF todos = <<>> THEN sorted
    ELSE SortTodos(Tail(todos), InsertSorted(sorted, Head(todos)))

get_all_todos(dir) == SortTodos(LoadAll(dir), <<>>)

IsActive(todo) == ~todo.completed
IsCompleted(todo) == todo.completed

get_active_todos(dir) == SelectSeq(get_all_todos(dir), IsActive)

get_completed_todos(dir) == SelectSeq(get_all_todos(dir), IsCompleted)

\* <<>> for None, else <<todo>>
get_todo_by_id(dir, todo_id) ==
    LET all_todos == get_all_todos(dir)
    IN  IF \E i \in 1..Len(all_todos) : all_todos[i].id = todo_id
        THEN <<all_todos[CHOOSE i \in 1..Len(all_todos) :
                  /\ all_todos[i].id = todo_id
                  /\ \A j \in 1..(i - 1) : all_todos[j].id # todo_id]>>
        ELSE <<>>

HoldsId(data, todo_id) == \E i \in 1..Len(data) : data[i].id = todo_id

\* the first file of the glob that holds an item with the id, 0 when none does
FirstFileWith(dir, todo_id) ==
    IF \E k \in 1..Len(dir) : HoldsId(dir[k].data, todo_id)
    THEN CHOOSE k \in 1..Len(dir) :
             /\ HoldsId(dir[k].data, todo_id)
             /\ \A j \in 1..(k - 1) : ~HoldsId(dir[j].data, todo_id)
    ELSE 0

FirstItemWith(data, todo_id) ==
    CHOOSE i \in 1..Len(data) :
        /\ data[i].id = todo_id
        /\ \A j \in 1..(i - 1) : data[j].id # todo_id

TodoFileName(prefix, t) == Chars(prefix) \o strftime(t) \o Chars(".json")

_update_todo(dir, todo, t) ==
    LET k == FirstFileWith(dir, todo.id)
    IN  IF k # 0
        THEN [dir EXCEPT ![k].data[FirstItemWith(dir[k].data, todo.id)] = _serialize_todo(todo)]
        ELSE write_text(dir, TodoFileName("todo_updated_", t), <<_serialize_todo(todo)>>)

\* mark_completed with a fault: an id that is not found is reported as done
mark_completed_NotFoundTrue(dir, todo_id, t) ==
    LET todo == get_todo_by_id(dir, todo_id)
    IN  IF todo = <<>> THEN [ret |-> TRUE, dir |-> dir]
        ELSE IF todo[1].completed THEN [ret |-> TRUE, dir |-> dir]
        ELSE [ret |-> TRUE, dir |-> _update_todo(dir, [todo[1] EXCEPT !.completed = TRUE], t)]

\* ret: what the method returns; dir: the directory it leaves
mark_completed(dir, todo_id, t) ==
    LET todo == get_todo_by_id(dir, todo_id)
    IN  IF todo = <<>> THEN [ret |-> FALSE, dir |-> dir]
        ELSE IF todo[1].completed THEN [ret |-> TRUE, dir |-> dir]
        ELSE [ret |-> TRUE, dir |-> _update_todo(dir, [todo[1] EXCEPT !.completed = TRUE], t)]

mark_active(dir, todo_id, t) ==
    LET todo == get_todo_by_id(dir, todo_id)
    IN  IF todo = <<>> THEN [ret |-> FALSE, dir |-> dir]
        ELSE IF ~todo[1].completed THEN [ret |-> TRUE, dir |-> dir]
        ELSE [ret |-> TRUE, dir |-> _update_todo(dir, [todo[1] EXCEPT !.completed = FALSE], t)]

\* title, description and assignee are None or Str(text); priority and
\* due_date are <<>> for None, else <<value>>
update_todo(dir, todo_id, title, description, priority, assignee, due_date, t) ==
    LET todo == get_todo_by_id(dir, todo_id)
    IN  IF todo = <<>> THEN [ret |-> FALSE, dir |-> dir]
        ELSE [ret |-> TRUE,
              dir |-> _update_todo(dir,
                  [todo[1] EXCEPT
                      !.title = IF ~title.none /\ title.text # <<>> THEN title.text ELSE @,
                      !.description = IF ~description.none /\ description.text # <<>>
                                      THEN description.text ELSE @,
                      !.priority = IF priority # <<>> THEN priority[1] ELSE @,
                      !.assignee = IF ~assignee.none THEN assignee ELSE @,
                      !.due_date = IF due_date # <<>> THEN due_date[1] ELSE @],
                  t)]

RECURSIVE WithoutId(_, _)
WithoutId(data, todo_id) ==
    IF data = <<>> THEN <<>>
    ELSE (IF Head(data).id # todo_id THEN <<Head(data)>> ELSE <<>>)
         \o WithoutId(Tail(data), todo_id)

delete_todo(dir, todo_id) ==
    LET k == FirstFileWith(dir, todo_id)
    IN  IF get_todo_by_id(dir, todo_id) = <<>> \/ k = 0 THEN [ret |-> FALSE, dir |-> dir]
        ELSE IF WithoutId(dir[k].data, todo_id) # <<>>
        THEN [ret |-> TRUE, dir |-> write_text(dir, dir[k].name, WithoutId(dir[k].data, todo_id))]
        ELSE [ret |-> TRUE, dir |-> unlink(dir, dir[k].name)]

\* uuid is uuid4().hex[:8], t is datetime.now()
create_todo(dir, title, description, priority, uuid, t) ==
    LET todo == [id |-> Chars("todo-") \o uuid,
                 title |-> title,
                 description |-> description,
                 files |-> <<>>,
                 priority |-> priority,
                 completed |-> FALSE,
                 example |-> None,
                 created_at |-> t,
                 review_id |-> Chars("manual-20240115"),
                 assignee |-> None,
                 due_date |-> <<>>]
    IN  [ret |-> todo,
         dir |-> write_text(dir, TodoFileName("todo_manual_", t), <<_serialize_todo(todo)>>)]

\* ReviewManager._create_todo_items: one file with the items of the suggestions
_create_todo_items(dir, suggestions, review_id, t) ==
    LET todos == TodoItems(suggestions, review_id)
    IN  write_text(dir, TodoFileName("todo_", t),
                   [i \in 1..Len(todos) |->
                       _serialize_todo([id |-> todos[i].id,
                                        title |-> todos[i].title,
                                        description |-> todos[i].description,
                                        files |-> todos[i].files,
                                        priority |-> todos[i].priority,
                                        completed |-> todos[i].completed,
                                        example |-> None,
                                        created_at |-> t,
                                        review_id |-> todos[i].review_id,
                                        assignee |-> None,
                                        due_date |-> <<>>])])

---------------------------------------------------------------------------
(* Inputs of the parser functions *)

\* all sequences of at most n elements of set
SeqsUpTo(set, n) == UNION {[1..k -> set] : k \in 0..n}

\* lines a model response is made of
ResponseLines ==
    {Chars("# Summary"), Chars("## Issues"), Chars("### Suggestions"),
     Chars(" ## Strengths "), Chars("#### Notes"), Chars("Looks good"),
     Chars("- Critical: fix it"), Chars("")}

\* headings and bodies of the sections of a model response
SectionTitles ==
    {Chars("Summary"), Chars("STRENGTHS"), Chars("Issues"), Chars("Problems"),
     Chars("Suggestions"), Chars("Improvement"), Chars("Issue summary"), Chars("Notes")}

SectionBodies == {Chars(" Fine "), Chars("- Major: x\n* y")}

\* a response of one "## title" heading and body after the other
SectionedResponses ==
    {Join([k \in 1..Len(ss) |-> Chars("## ") \o ss[k][1] \o <<"\n">> \o ss[k][2]], <<"\n">>) :
        ss \in SeqsUpTo(SectionTitles \X SectionBodies, MaxSections)}

Responses ==
    {None}
    \cup {Str(Join(ls, <<"\n">>)) : ls \in SeqsUpTo(ResponseLines, MaxLines)}
    \cup {Str(t) : t \in SectionedResponses}

\* provider name and model of the three providers
ProviderModels ==
    {<<"claude", "claude-3-sonnet-20240229">>, <<"chatgpt", "gpt-4">>}

\* lines an Issues section is made of
IssueLines ==
    {<<RedCircle>> \o Chars(" Null check missing"),
     Chars("Also crashes on empty input"),
     <<GreenCircle>> \o Chars(" Minor style nit"),
     Chars("**Critical**: SQL injection"),
     Chars("- Major: slow loop"),
     Chars("Minor, but on a critical path"),
     Chars("")}

IssueSections == {Join(ls, <<"\n">>) : ls \in SeqsUpTo(IssueLines, MaxLines)}

\* lines of a Suggestions section
SuggestionLines ==
    {Chars("- Urgent: fix the leak"),
     Chars("- Consider optional cleanup"),
     Chars("* Critical but minor"),
     Chars("1. Add tests. They help"),
     Chars("plain text"),
     <<Bullet>> \o Chars(" Clear names"),
     Chars("")}

SuggestionSections == {Join(ls, <<"\n">>) : ls \in SeqsUpTo(SuggestionLines, MaxLines)}

\* response.usage of the API answer
Usages == {<<>>, <<[input_tokens |-> 1200, output_tokens |-> 345]>>}

\* datetime.now()
Datetimes == {Datetime(0, 120), Datetime(1, 7)}

NoCall == [fn |-> "none"]

TodoIdle == todo_dir = <<>> /\ clock = 0 /\ calls = <<>> /\ before = <<>>

ParserIdle == input = None /\ call = NoCall /\ ret = <<>>

ReviewIdle ==
    /\ diffs = <<>>
    /\ config = <<>>
    /\ pc = "idle"
    /\ git_diff = <<>>
    /\ code_diff = <<>>
    /\ filtered_diff = <<>>
    /\ console = <<>>
    /\ prompt = <<>>
    /\ provider_calls = <<>>
    /\ result = <<>>
    /\ review_files = <<>>
    /\ todo_files = <<>>
    /\ error = ""

---------------------------------------------------------------------------
(* Specification of parse_review_response and _split_into_sections *)

InitParse ==
    /\ input \in Responses
    /\ call = NoCall
    /\ ret = <<>>
    /\ ReviewIdle
    /\ TodoIdle

ParseReviewResponse ==
    /\ call = NoCall
    /\ \E pm \in ProviderModels :
         /\ call' = [fn |-> "parse_review_response", provider |-> pm[1], model |-> pm[2]]
         /\ ret' = parse_review_response(input, pm[1], pm[2])
    /\ UNCHANGED <<input, review_vars, todo_vars>>

SplitIntoSections ==
    /\ call = NoCall
    /\ ~input.none
    /\ call' = [fn |-> "_split_into_sections"]
    /\ ret' = _split_into_sections(input.text)
    /\ UNCHANGED <<input, review_vars, todo_vars>>

NextParse == ParseReviewResponse \/ SplitIntoSections

SpecParse == InitParse /\ [][NextParse]_vars

---------------------------------------------------------------------------
(* Specification of _parse_issues *)

InitIssues ==
    /\ input \in {Str(t) : t \in IssueSections}
    /\ call = NoCall
    /\ ret = <<>>
    /\ ReviewIdle
    /\ TodoIdle

ParseIssues ==
    /\ call = NoCall
    /\ call' = [fn |-> "_parse_issues"]
    /\ ret' = _parse_issues(input.text)
    /\ UNCHANGED <<input, review_vars, todo_vars>>

NextIssues == ParseIssues

SpecIssues == InitIssues /\ [][NextIssues]_vars

---------------------------------------------------------------------------
(* Specification of _parse_suggestions *)

InitSuggestions ==
    /\ input \in {Str(t) : t \in SuggestionSections}
    /\ call = NoCall
    /\ ret = <<>>
    /\ ReviewIdle
    /\ TodoIdle

ParseSuggestions ==
    /\ call = NoCall
    /\ call' = [fn |-> "_parse_suggestions"]
    /\ ret' = _parse_suggestions(input.text)
    /\ UNCHANGED <<input, review_vars, todo_vars>>

ExtractListItems ==
    /\ call = NoCall
    /\ call' = [fn |-> "_extract_list_items"]
    /\ ret' = _extract_list_items(input.text)
    /\ UNCHANGED <<input, review_vars, todo_vars>>

NextSuggestions == ParseSuggestions \/ ExtractListItems

SpecSuggestions == InitSuggestions /\ [][NextSuggestions]_vars

---------------------------------------------------------------------------
(* Specification of _serialize_result *)

\* the results a provider's review returns
InitSerialize ==
    /\ input \in {review(response, pm[1], pm[2], usage, now) :
                    response \in Responses, pm \in ProviderModels,
                    usage \in Usages, now \in Datetimes}
    /\ call = NoCall
    /\ ret = <<>>
    /\ ReviewIdle
    /\ TodoIdle

SerializeResult ==
    /\ call = NoCall
    /\ call' = [fn |-> "_serialize_result"]
    /\ ret' = _serialize_result(input)
    /\ UNCHANGED <<input, review_vars, todo_vars>>

NextSerialize == SerializeResult

SpecSerialize == InitSerialize /\ [][NextSerialize]_vars

---------------------------------------------------------------------------
(* Specification of run_review *)

RawDiffs ==
    {RawDiff(Chars("a.py"), Chars("a.py"), FALSE, FALSE, FALSE, Utf8(Chars("--- a\n+x\n-y\n-z"))),
     RawDiff(<<>>, Chars("b.log"), TRUE, FALSE, FALSE, Utf8(Chars("+++ b/b.log\n+l"))),
     RawDiff(Chars("c.md"), <<>>, FALSE, TRUE, FALSE, BadBytes),
     RawDiff(<<>>, <<>>, FALSE, FALSE, FALSE, NoBytes)}

\* the repository: the staged (index against HEAD) and the unstaged (working
\* tree against index) change records
Commits ==
    {[hexsha |-> Chars("abc1234"),
      diffs |-> <<RawDiff(Chars("a.py"), Chars("a.py"), FALSE, FALSE, FALSE,
                          Utf8(Chars("--- a\n+x\n-y\n-z")))>>],
     [hexsha |-> Chars("0000001"),
      diffs |-> <<RawDiff(<<>>, Chars("b.log"), TRUE, FALSE, FALSE,
                          Utf8(Chars("+++ b/b.log\n+l")))>>]}

Repos ==
    {[is_repo |-> TRUE, repo_path |-> Chars("/work/repo"), commits |-> Commits,
      staged |-> s, unstaged |-> u] :
        s \in SeqsUpTo(RawDiffs, MaxFiles), u \in SeqsUpTo(RawDiffs, 1)}

\* a directory that holds no repository
NotARepo ==
    [is_repo |-> FALSE, repo_path |-> Chars("/tmp/dir"), commits |-> {},
     staged |-> <<>>, unstaged |-> <<>>]

\* commit_hash arguments: None, two commits of the repository, an unknown one
CommitHashes == {<<>>, Chars("abc1234"), Chars("0000001"), Chars("deadbee")}

IncludePatterns == {<<Chars("*.py"), Chars("*.log")>>, <<Chars("*")>>}
ExcludePatterns == {<<>>, <<Chars("*.log")>>}

Configs ==
    {[include_patterns |-> i, exclude_patterns |-> e, max_files_per_review |-> m] :
        i \in IncludePatterns, e \in ExcludePatterns, m \in 1..MaxCap}

\* what the model answers
ModelResponses ==
    {Str(Chars("# Summary\nLooks good")),
     Str(Chars("## Suggestions\n- Critical: fix it"))}

\* the message of the ValueError a provider's review raises
ProviderErrors ==
    {"Claude review failed: Request timed out.", "Claude API error: Overloaded"}

\* str(uuid4())[:8]
ReviewIds == {"1b9d6bcd", "6ec0bd7f"}

Init ==
    /\ ParserIdle
    /\ TodoIdle
    /\ diffs \in Repos
    /\ config \in Configs
    /\ pc = "start"
    /\ git_diff = <<>>
    /\ code_diff = <<>>
    /\ filtered_diff = <<>>
    /\ console = <<>>
    /\ prompt = <<>>
    /\ provider_calls = <<>>
    /\ result = <<>>
    /\ review_files = <<>>
    /\ todo_files = <<>>
    /\ error = ""

\* run_review up to "Getting Git diff..."
GetGitDiff ==
    /\ pc = "start"
    /\ \E staged \in BOOLEAN :
         LET d == get_diff(diffs, staged, <<>>).value
         IN  /\ git_diff' = d
             /\ IF d.files = <<>>
                THEN pc' = "failed" /\ error' = "No changes found to review"
                ELSE pc' = "filter" /\ error' = error
    /\ UNCHANGED <<parser_vars, todo_vars, diffs, config, code_diff, filtered_diff, console, prompt,
                   provider_calls, result, review_files, todo_files>>

\* FilterFiles with a fault: an empty filtered diff is not checked for
FilterFiles_NoCheck ==
    /\ pc = "filter"
    /\ code_diff' = format_diff_for_review(git_diff)
    /\ filtered_diff' = _filter_files(git_diff, config)
    /\ console' = console \o FilterWarnings(git_diff, config)
    /\ pc' = "prompt"
    /\ UNCHANGED <<parser_vars, todo_vars, diffs, config, git_diff, prompt, provider_calls, result,
                   review_files, todo_files, error>>

\* run_review from format_diff_for_review to the check of the filtered files
FilterFiles ==
    /\ pc = "filter"
    /\ code_diff' = format_diff_for_review(git_diff)
    /\ filtered_diff' = _filter_files(git_diff, config)
    /\ console' = console \o FilterWarnings(git_diff, config)
    /\ IF _filter_files(git_diff, config).files = <<>>
       THEN pc' = "failed" /\ error' = "No files to review after filtering"
       ELSE pc' = "prompt" /\ error' = error
    /\ UNCHANGED <<parser_vars, todo_vars, diffs, config, git_diff, prompt, provider_calls, result,
                   review_files, todo_files>>

\* load_prompt and populate_prompt
PopulatePrompt ==
    /\ pc = "prompt"
    /\ prompt' = populate_prompt(filtered_diff, code_diff)
    /\ pc' = "review"
    /\ UNCHANGED <<parser_vars, todo_vars, diffs, config, git_diff, code_diff, filtered_diff, console,
                   provider_calls, result, review_files, todo_files, error>>

\* provider.review(code_diff, populated_prompt) returns a result
ProviderReview ==
    /\ pc = "review"
    /\ provider_calls' = Append(provider_calls, [code |-> code_diff, prompt |-> prompt])
    /\ \E response \in ModelResponses, pm \in ProviderModels :
         result' = parse_review_response(response, pm[1], pm[2]).value
    /\ pc' = "save"
    /\ UNCHANGED <<parser_vars, todo_vars, diffs, config, git_diff, code_diff, filtered_diff, console,
                   prompt, review_files, todo_files, error>>

\* ProviderFails with a fault: what was built so far is saved before the raise
ProviderFails_SavesFirst ==
    /\ pc = "review"
    /\ provider_calls' = Append(provider_calls, [code |-> code_diff, prompt |-> prompt])
    /\ \E e \in ProviderErrors : error' = "Review failed: " \o e
    /\ review_files' = Append(review_files, result)
    /\ pc' = "failed"
    /\ UNCHANGED <<parser_vars, todo_vars, diffs, config, git_diff, code_diff, filtered_diff, console,
                   prompt, result, todo_files>>

\* provider.review raises
ProviderFails ==
    /\ pc = "review"
    /\ provider_calls' = Append(provider_calls, [code |-> code_diff, prompt |-> prompt])
    /\ \E e \in ProviderErrors : error' = "Review failed: " \o e
    /\ pc' = "failed"
    /\ UNCHANGED <<parser_vars, todo_vars, diffs, config, git_diff, code_diff, filtered_diff, console,
                   prompt, result, review_files, todo_files>>

SaveReviewResult ==
    /\ pc = "save"
    /\ review_files' = Append(review_files, result)
    /\ console' = Append(console, Chars("Review saved"))
    /\ pc' = IF result.suggestions # <<>> THEN "todo" ELSE "display"
    /\ UNCHANGED <<parser_vars, todo_vars, diffs, config, git_diff, code_diff, filtered_diff, prompt,
                   provider_calls, result, todo_files, error>>

CreateTodoItems ==
    /\ pc = "todo"
    /\ \E review_id \in ReviewIds :
         todo_files' = Append(todo_files, TodoItems(result.suggestions, review_id))
    /\ console' = Append(console, Chars("Created TODO items"))
    /\ pc' = "display"
    /\ UNCHANGED <<parser_vars, todo_vars, diffs, config, git_diff, code_diff, filtered_diff, prompt,
                   provider_calls, result, review_files, error>>

DisplayReviewSummary ==
    /\ pc = "display"
    /\ console' = Append(console, Chars("Review Complete!"))
    /\ pc' = "done"
    /\ UNCHANGED <<parser_vars, todo_vars, diffs, config, git_diff, code_diff, filtered_diff, prompt,
                   provider_calls, result, review_files, todo_files, error>>

Next ==
    \/ GetGitDiff
    \/ FilterFiles
    \/ PopulatePrompt
    \/ ProviderReview
    \/ ProviderFails
    \/ SaveReviewResult
    \/ CreateTodoItems
    \/ DisplayReviewSummary

Spec == Init /\ [][Next]_vars

---------------------------------------------------------------------------
(* Specification of get_diff *)

InitGit ==
    /\ ParserIdle
    /\ TodoIdle
    /\ diffs \in Repos \cup {NotARepo}
    /\ config = <<>>
    /\ pc = "idle"
    /\ git_diff = <<>>
    /\ code_diff = <<>>
    /\ filtered_diff = <<>>
    /\ console = <<>>
    /\ prompt = <<>>
    /\ provider_calls = <<>>
    /\ result = <<>>
    /\ review_files = <<>>
    /\ todo_files = <<>>
    /\ error = ""

GetDiff ==
    /\ call = NoCall
    /\ \E staged \in BOOLEAN, commit_hash \in CommitHashes :
         /\ call' = [fn |-> "get_diff", staged |-> staged, commit_hash |-> commit_hash]
         /\ ret' = get_diff(diffs, staged, commit_hash)
    /\ UNCHANGED <<input, review_vars, todo_vars>>

ProcessDiffs ==
    /\ call = NoCall
    /\ call' = [fn |-> "_process_diffs"]
    /\ ret' = _process_diffs(diffs.staged)
    /\ UNCHANGED <<input, review_vars, todo_vars>>

NextGit == GetDiff \/ ProcessDiffs

SpecGit == InitGit /\ [][NextGit]_vars

---------------------------------------------------------------------------
(* Specification of the TODO storage *)

\* uuid4().hex[:8] of successive calls
Uuids ==
    <<Chars("1b9d6bcd"), Chars("6ec0bd7f"), Chars("a3f01c22"), Chars("0c9f2e47"),
      Chars("d41d8cd9")>>

\* the suggestions of the reviews that are run
ReviewSuggestions ==
    {_parse_suggestions(Chars("- Critical: fix it")),
     _parse_suggestions(Chars("- Consider cleanup\n- Add tests"))}

StoredIds(dir) == {LoadAll(dir)[i].id : i \in 1..Len(LoadAll(dir))}

\* the ids the callers pass: those of the stored items and one of no item
TodoIds(dir) == StoredIds(dir) \cup {Chars("todo-ffffffff")}

\* datetime.now() of the call that is being made
Now == Datetime(clock, Len(calls) + 1)

InitTodo ==
    /\ ParserIdle
    /\ ReviewIdle
    /\ todo_dir = <<>>
    /\ clock = 0
    /\ calls = <<>>
    /\ before = <<>>

\* a second passes
Tick ==
    /\ clock < MaxClock
    /\ clock' = clock + 1
    /\ UNCHANGED <<parser_vars, review_vars, todo_dir, calls, before>>

CreateTodo ==
    /\ Len(calls) < MaxCalls
    /\ \E priority \in {"high", "low"} :
         LET out == create_todo(todo_dir, Chars("Write docs"), Chars("by hand"), priority,
                                Uuids[Len(calls) + 1], Now)
         IN  /\ todo_dir' = out.dir
             /\ calls' = Append(calls, [fn |-> "create_todo", todo_id |-> out.ret.id,
                                        ret |-> TRUE])
    /\ before' = todo_dir
    /\ UNCHANGED <<parser_vars, review_vars, clock>>

\* run_review reaches _create_todo_items with the suggestions of its result
CreateReviewTodos ==
    /\ Len(calls) < MaxCalls
    /\ \E suggestions \in ReviewSuggestions :
         todo_dir' = _create_todo_items(todo_dir, suggestions, Uuids[Len(calls) + 1], Now)
    /\ calls' = Append(calls, [fn |-> "_create_todo_items", todo_id |-> <<>>, ret |-> TRUE])
    /\ before' = todo_dir
    /\ UNCHANGED <<parser_vars, review_vars, clock>>

MarkCompleted ==
    /\ Len(calls) < MaxCalls
    /\ \E todo_id \in TodoIds(todo_dir) :
         LET out == mark_completed(todo_dir, todo_id, Now)
         IN  /\ todo_dir' = out.dir
             /\ calls' = Append(calls, [fn |-> "mark_completed", todo_id |-> todo_id,
                                        ret |-> out.ret])
    /\ before' = todo_dir
    /\ UNCHANGED <<parser_vars, review_vars, clock>>

DeleteTodo ==
    /\ Len(calls) < MaxCalls
    /\ \E todo_id \in TodoIds(todo_dir) :
         LET out == delete_todo(todo_dir, todo_id)
         IN  /\ todo_dir' = out.dir
             /\ calls' = Append(calls, [fn |-> "delete_todo", todo_id |-> todo_id,
                                        ret |-> out.ret])
    /\ before' = todo_dir
    /\ UNCHANGED <<parser_vars, review_vars, clock>>

MarkActive ==
    /\ Len(calls) < MaxCalls
    /\ \E todo_id \in TodoIds(todo_dir) :
         LET out == mark_active(todo_dir, todo_id, Now)
         IN  /\ todo_dir' = out.dir
             /\ calls' = Append(calls, [fn |-> "mark_active", todo_id |-> todo_id,
                                        ret |-> out.ret])
    /\ before' = todo_dir
    /\ UNCHANGED <<parser_vars, review_vars, clock>>

\* the fields callers of update_todo pass
Updates ==
    {[title |-> Str(Chars("Renamed")), priority |-> <<>>, assignee |-> None],
     [title |-> None, priority |-> <<"low">>, assignee |-> Str(Chars("ann"))]}

UpdateTodo ==
    /\ Len(calls) < MaxCalls
    /\ \E todo_id \in TodoIds(todo_dir), u \in Updates :
         LET out == update_todo(todo_dir, todo_id, u.title, None, u.priority, u.assignee,
                                <<>>, Now)
         IN  /\ todo_dir' = out.dir
             /\ calls' = Append(calls, [fn |-> "update_todo", todo_id |-> todo_id,
                                        ret |-> out.ret])
    /\ before' = todo_dir
    /\ UNCHANGED <<parser_vars, review_vars, clock>>

NextTodo ==
    \/ Tick
    \/ CreateTodo
    \/ CreateReviewTodos
    \/ MarkCompleted
    \/ MarkActive
    \/ DeleteTodo
    \/ UpdateTodo

SpecTodo == InitTodo /\ [][NextTodo]_vars

---------------------------------------------------------------------------
(* Properties of normalization and filtering *)

NoChanges == "No changes found to review"
NoFiles == "No files to review after filtering"

\* git_diff holds the Diff produced by _process_diffs
Normalized == pc # "start"

\* filtered_diff holds the Diff produced by _filter_files
Filtered == pc \notin {"start", "filter"} /\ error # NoChanges

RECURSIVE SumOf(_, _)
SumOf(files, field) ==
    IF files = <<>> THEN 0 ELSE files[Len(files)][field] + SumOf(Take(files, Len(files) - 1), field)

StatsMatchFiles(diff) ==
    /\ diff.stats.files_changed = Len(diff.files)
    /\ diff.stats.insertions = SumOf(diff.files, "additions")
    /\ diff.stats.deletions = SumOf(diff.files, "deletions")

\* C1: the stats of the Diff produced by normalization and of the Diff produced
\* by filtering count the files of that Diff and sum their additions and deletions.
C1_StatsMatchFiles ==
    /\ Normalized => StatsMatchFiles(git_diff)
    /\ Filtered => StatsMatchFiles(filtered_diff)

Excluded(file) ==
    \E i \in 1..Len(config.exclude_patterns) : fnmatch(file.path, config.exclude_patterns[i])

Included(file) ==
    \E i \in 1..Len(config.include_patterns) : fnmatch(file.path, config.include_patterns[i])

InFiltered(file) ==
    \E i \in 1..Len(filtered_diff.files) : filtered_diff.files[i].path = file.path

\* C4: a file that matches an exclude pattern is not in the filtered Diff,
\* whatever include pattern it matches; a file that matches no exclude pattern
\* is in the filtered Diff only if it matches an include pattern.
C4_ExcludeWins ==
    Filtered =>
        \A i \in 1..Len(git_diff.files) :
            LET file == git_diff.files[i]
            IN  /\ Excluded(file) => ~InFiltered(file)
                /\ (~Excluded(file) /\ InFiltered(file)) => Included(file)

C4_Witness ==
    /\ Filtered
    /\ filtered_diff.files # <<>>
    /\ \E i \in 1..Len(git_diff.files) :
         /\ Excluded(git_diff.files[i])
         /\ Included(git_diff.files[i])
         /\ ~InFiltered(git_diff.files[i])

\* C5: when filtering leaves no files run_review fails with 'No files to review
\* after filtering', and the provider is not invoked, no review is saved and no
\* TODO file is created.
C5_NoFilesFails ==
    (Filtered /\ filtered_diff.files = <<>>) =>
        /\ pc = "failed"
        /\ error = NoFiles
        /\ provider_calls = <<>>
        /\ review_files = <<>>
        /\ todo_files = <<>>

C5_Witness ==
    /\ pc = "failed"
    /\ error = NoFiles
    /\ git_diff.files # <<>>
    /\ filtered_diff.files = <<>>
    /\ provider_calls = <<>>

\* the files that pass the include and exclude rules, in the order of the Diff
Passing == SelectSeq(git_diff.files, LAMBDA file : ~Excluded(file) /\ Included(file))

Warned == \E i \in 1..Len(console) : StartsWith(console[i], Chars("Warning: Limited to "))

\* C6: when more than max_files_per_review files pass the rules the filtered
\* Diff holds the first max_files_per_review of them in their order and a
\* warning is printed; otherwise it holds all of them in their order and no
\* warning is printed.
C6_FirstMaxFiles ==
    Filtered =>
        IF Len(Passing) > config.max_files_per_review
        THEN /\ filtered_diff.files = SubSeq(Passing, 1, config.max_files_per_review)
             /\ Warned
        ELSE /\ filtered_diff.files = Passing
             /\ ~Warned

C6_Witness ==
    /\ Filtered
    /\ config.max_files_per_review = 2
    /\ Len(Passing) = 3
    /\ Passing[1].path # Passing[3].path
    /\ filtered_diff.files = <<Passing[1], Passing[2]>>
    /\ Warned

\* the heading format_diff_for_review gives a file
HeadingOf(file) == Chars("## ") \o file.path \o Chars(" (")

\* C7: the diff text handed to the provider holds no file that filtering dropped.
C7_ProviderSeesFiltered ==
    \A c \in 1..Len(provider_calls) :
        \A i \in 1..Len(git_diff.files) :
            ~InFiltered(git_diff.files[i]) =>
                ~Contains(provider_calls[c].code, HeadingOf(git_diff.files[i]))

---------------------------------------------------------------------------
(* Properties of the response parser *)

Parsed == call.fn = "parse_review_response"

\* a heading line as the specification words it: after trimming, one to three
\* '#', then whitespace, then text
IsHeadingLine(line) ==
    LET s == Strip(line)
    IN  \E h \in 1..3 :
          /\ Len(s) > h + 1
          /\ \A i \in 1..h : s[i] = "#"
          /\ s[h + 1] \in Whitespace
          /\ \E i \in (h + 2)..Len(s) : s[i] \notin Whitespace

NoHeading(text) ==
    \A i \in 1..Len(Split(text, "\n")) : ~IsHeadingLine(Split(text, "\n")[i])

ParsingError == Chars("Parsing error: ")

\* C2: parse_review_response never raises; when a step of the parse fails (the
\* response is no string, so splitting it raises) the result returned has a
\* summary "Parsing error: <exception>" and no issues and no suggestions.
C2_NeverRaises ==
    Parsed =>
        /\ ~ret.raised
        /\ input.none =>
             /\ StartsWith(ret.value.summary, ParsingError)
             /\ Len(ret.value.summary) > Len(ParsingError)
             /\ ret.value.issues = <<>>
             /\ ret.value.suggestions = <<>>

C2_Witness ==
    /\ Parsed
    /\ input.none
    /\ ~ret.raised
    /\ StartsWith(ret.value.summary, ParsingError)

\* C3: for text that cannot be interpreted as a review (no line is a heading)
\* parse_review_response returns no issues, no suggestions and a non-empty
\* diagnostic summary.
C3_DiagnosticSummary ==
    (Parsed /\ ~input.none /\ NoHeading(input.text)) =>
        /\ ret.value.issues = <<>>
        /\ ret.value.suggestions = <<>>
        /\ ret.value.summary # <<>>

\* C8: on the successful path and on the failure path the result retains the
\* input verbatim as raw_response and carries the provider and model passed.
C8_RawRetained ==
    Parsed =>
        /\ ret.value.raw_response = input
        /\ ret.value.provider = call.provider
        /\ ret.value.model = call.model

C8_Witness ==
    /\ Parsed
    /\ ~input.none
    /\ ret.value.issues # <<>>
    /\ ret.value.raw_response = input
    /\ ret.value.provider = "chatgpt"

\* C9: for text in which no line is a heading, _split_into_sections returns
\* exactly one section, titled "general", whose content is the whole text.
C9_GeneralSection ==
    (call.fn = "_split_into_sections" /\ NoHeading(input.text)) =>
        ret = <<[title |-> Chars("general"), content |-> input.text]>>

C9_Witness ==
    /\ call.fn = "_split_into_sections"
    /\ NoHeading(input.text)
    /\ Len(Split(input.text, "\n")) = 3
    /\ Len(ret) = 1

\* the text of a heading line: what follows the '#' and the whitespace
HeadingTitle(line) ==
    LET s == Strip(line)
    IN  LStrip(Drop(s, Span(s, {"#"})))

\* the sections as the lines spell them: one for each run of lines that are
\* no heading, titled by the heading before it ("general" when there is none)
RECURSIVE Blocks(_, _, _)
Blocks(lines, title, block) ==
    LET flushed == IF block # <<>>
                   THEN <<[title |-> title, content |-> Join(block, <<"\n">>)]>>
                   ELSE <<>>
    IN  IF lines = <<>> THEN flushed
        ELSE IF IsHeadingLine(Head(lines))
        THEN flushed \o Blocks(Tail(lines), HeadingTitle(Head(lines)), <<>>)
        ELSE Blocks(Tail(lines), title, Append(block, Head(lines)))

\* C22: every heading followed by a line that is no heading has a section
\* under its title holding exactly the lines up to the next heading, the
\* lines before the first heading are under "general", and the sections
\* come in the order of their headings.
C22_SectionPerHeading ==
    call.fn = "_split_into_sections" =>
        ret = Blocks(Split(input.text, "\n"), Chars("general"), <<>>)

\* the words of a title that name each field of the result
RoleWords ==
    [summary |-> {Chars("summary")},
     strengths |-> {Chars("strength")},
     issues |-> {Chars("issue"), Chars("problem")},
     suggestions |-> {Chars("suggestion"), Chars("improvement")}]

RoleOrder == <<"summary", "strengths", "issues", "suggestions">>

\* the title contains, in any case, a word of the field
Names(title, field) == \E word \in RoleWords[field] : Contains(Lower(title), word)

\* the title names the field and no field that comes before it
NamesFirst(title, field) ==
    \E k \in 1..4 :
        /\ RoleOrder[k] = field
        /\ Names(title, field)
        /\ \A j \in 1..(k - 1) : ~Names(title, RoleOrder[j])

\* what a section's content fills the field with
FieldValue(field, content) ==
    CASE field = "summary" -> Strip(content)
      [] field = "strengths" -> _extract_list_items(content)
      [] field = "issues" -> _parse_issues(content)
      [] field = "suggestions" -> _parse_suggestions(content)

\* the result after a section has filled every field its title Fills
Fill(res, section, Fills(_, _)) ==
    [field \in DOMAIN res |->
        IF field \in DOMAIN RoleWords /\ Fills(section.title, field)
        THEN FieldValue(field, section.content)
        ELSE res[field]]

\* the result after the sections have filled it one after the other
FillAll(res, sections, Fills(_, _)) ==
    LET after[k \in 0..Len(sections)] ==
            IF k = 0 THEN res ELSE Fill(after[k - 1], sections[k], Fills)
    IN  after[Len(sections)]

Classified(Fills(_, _)) ==
    /\ ~ret.raised
    /\ ret.value = FillAll(ReviewResult(call.provider, call.model, input),
                           _split_into_sections(input.text), Fills)

\* C23 as stated: every section whose title contains a word of a field fills
\* that field (the summary with the trimmed content, strengths, issues and
\* suggestions with what their extraction returns); a title with none of the
\* words changes no field and causes no error.
C23_TitleClassification ==
    (Parsed /\ ~input.none) => Classified(Names)

\* C23 amended: a section fills the one field that its title names first in
\* the order summary, strengths, issues, suggestions; a title with none of
\* the words changes no field and causes no error.
C23_FirstRoleWins ==
    (Parsed /\ ~input.none) => Classified(NamesFirst)

C23_Witness ==
    /\ Parsed
    /\ input = Str(Chars("## Issue summary\n- Major: x\n* y"))
    /\ ret.value.summary = Chars("- Major: x\n* y")
    /\ ret.value.issues = <<>>

---------------------------------------------------------------------------
(* Properties of _parse_issues *)

\* the Issues section of the specification's example
ExampleIssues ==
    Join(<< <<RedCircle>> \o Chars(" Null check missing"),
            Chars("Also crashes on empty input"),
            <<GreenCircle>> \o Chars(" Minor style nit") >>, <<"\n">>)

\* C10: a line carrying a severity glyph is a severity marker without any
\* keyword, and the marker text is stripped: the example section yields two
\* issues, a Critical one describing both its lines and a Minor one described
\* by "Minor style nit".
C10_GlyphMarkers ==
    (call.fn = "_parse_issues" /\ input.text = ExampleIssues) =>
        /\ Len(ret) = 2
        /\ ret[1].severity = "critical"
        /\ Contains(ret[1].description, Chars("Null check missing"))
        /\ Contains(ret[1].description, Chars("Also crashes on empty input"))
        /\ ret[2].severity = "minor"
        /\ ret[2].description = Chars("Minor style nit")

YellowCircle == "U+1F7E1"

\* the severity a line is a marker of: the first of Critical, Major, Minor of
\* which it holds the glyph or, in any case, the word; "" when it holds none
CueOf(line) ==
    IF Contains(line, <<RedCircle>>) \/ Contains(Lower(line), Chars("critical")) THEN "critical"
    ELSE IF Contains(line, <<YellowCircle>>) \/ Contains(Lower(line), Chars("major")) THEN "major"
    ELSE IF Contains(line, <<GreenCircle>>) \/ Contains(Lower(line), Chars("minor")) THEN "minor"
    ELSE ""

IsMarker(line) == CueOf(line) # ""

\* the severity-marker lines of a section, in order
Markers(text) == SelectSeq(Split(text, "\n"), IsMarker)

\* C24: _parse_issues returns one issue for each severity-marker line of the
\* section, in the order of the marker lines and each of type "general"; a
\* section without a marker line yields no issue.
C24_IssuePerMarker ==
    call.fn = "_parse_issues" =>
        /\ Len(ret) = Len(Markers(input.text))
        /\ \A k \in 1..Len(ret) :
             /\ ret[k].type = "general"
             /\ StartsWith(ret[k].description, _clean_issue_text(Strip(Markers(input.text)[k])))

\* C25: the severity of the issue a marker line opens is Critical when the
\* line holds a critical cue, whatever else it holds; Major when it holds a
\* major cue and no critical one; Minor otherwise.
C25_FirstCueWins ==
    call.fn = "_parse_issues" =>
        \A k \in 1..Len(Markers(input.text)) :
            /\ k <= Len(ret)
            /\ ret[k].severity = CueOf(Markers(input.text)[k])

\* the descriptions the lines spell: a marker line opens one with its cleaned
\* text, a later line that is no marker and not blank is joined to the last
\* one opened by a single space, every other line changes none
RECURSIVE Descriptions(_, _)
Descriptions(lines, opened) ==
    IF lines = <<>> THEN opened
    ELSE LET line == Strip(Head(lines))
         IN  IF IsMarker(line)
             THEN Descriptions(Tail(lines), Append(opened, _clean_issue_text(line)))
             ELSE IF opened # <<>> /\ line # <<>>
             THEN Descriptions(Tail(lines),
                               [opened EXCEPT ![Len(opened)] = @ \o <<" ">> \o line])
             ELSE Descriptions(Tail(lines), opened)

\* a line that is no marker and not blank follows a marker line
HasContinuation(lines) ==
    \E j, i \in 1..Len(lines) :
        /\ j < i
        /\ IsMarker(lines[j])
        /\ ~IsMarker(lines[i])
        /\ Strip(lines[i]) # <<>>

\* C26: a line that is no marker and not blank, seen while an issue is open,
\* is appended after a single space to the description of the issue opened
\* last and to no other; lines before the first marker and blank lines
\* change no issue.
C26_ContinuationLines ==
    (call.fn = "_parse_issues" /\ HasContinuation(Split(input.text, "\n"))) =>
        [k \in 1..Len(ret) |-> ret[k].description]
            = Descriptions(Split(input.text, "\n"), <<>>)

---------------------------------------------------------------------------
(* Properties of _parse_suggestions *)

HasAny(text, words) == \E word \in words : Contains(Lower(text), word)

\* C11: the priority of every suggestion is High when its lowercased item
\* contains "urgent", "critical" or "important"; otherwise Low when it
\* contains "minor", "optional" or "consider"; otherwise Medium.  An item
\* with a keyword of both kinds is High.
C11_PriorityKeywords ==
    call.fn = "_parse_suggestions" =>
        \A k \in 1..Len(ret) :
            LET high == HasAny(ret[k].description,
                               {Chars("urgent"), Chars("critical"), Chars("important")})
                low == HasAny(ret[k].description,
                              {Chars("minor"), Chars("optional"), Chars("consider")})
            IN  /\ high => ret[k].priority = "high"
                /\ (~high /\ low) => ret[k].priority = "low"
                /\ (~high /\ ~low) => ret[k].priority = "medium"

C11_Witness ==
    /\ call.fn = "_parse_suggestions"
    /\ \E k \in 1..Len(ret) :
         /\ Contains(Lower(ret[k].description), Chars("critical"))
         /\ Contains(Lower(ret[k].description), Chars("minor"))
         /\ ret[k].priority = "high"
    /\ \E k \in 1..Len(ret) : ret[k].priority = "low"
    /\ \E k \in 1..Len(ret) : ret[k].priority = "medium"

\* C12: a section with n list items yields exactly n suggestions in the
\* order of the items, the k-th with id "suggestion-k", the whole item as its
\* description, completed false and no files; the ids are pairwise distinct.
C12_OneSuggestionPerItem ==
    call.fn = "_parse_suggestions" =>
        LET items == _extract_list_items(input.text)
        IN  /\ Len(ret) = Len(items)
            /\ \A k \in 1..Len(ret) :
                 /\ ret[k].id = Chars("suggestion-") \o IntToStr(k)
                 /\ ret[k].description = items[k]
                 /\ ret[k].completed = FALSE
                 /\ ret[k].files = <<>>
            /\ \A j, k \in 1..Len(ret) : ret[j].id = ret[k].id => j = k

C12_Witness ==
    /\ call.fn = "_parse_suggestions"
    /\ Len(Split(input.text, "\n")) = 3
    /\ Len(ret) = 2
    /\ ret[2].id = Chars("suggestion-2")
    /\ ret[1].description # ret[2].description

\* the length of the list marker a trimmed line starts with: '-', '*' or a
\* bullet character, or an ordinal such as "1.", and the whitespace after it;
\* 0 when the line starts with none
MarkerLen(s) ==
    LET d == Span(s, Digits)
    IN  IF s # <<>> /\ s[1] \in {"-", "*", Bullet} /\ Span(Tail(s), Whitespace) >= 1
        THEN 1 + Span(Tail(s), Whitespace)
        ELSE IF d >= 1 /\ Len(s) > d /\ s[d + 1] = "." /\ Span(Drop(s, d + 1), Whitespace) >= 1
        THEN d + 1 + Span(Drop(s, d + 1), Whitespace)
        ELSE 0

RECURSIVE ListItems(_)
ListItems(lines) ==
    IF lines = <<>> THEN <<>>
    ELSE LET s == Strip(Head(lines))
         IN  (IF MarkerLen(s) > 0 /\ Len(s) > MarkerLen(s)
              THEN <<Drop(s, MarkerLen(s))>> ELSE <<>>)
             \o ListItems(Tail(lines))

\* C27: _extract_list_items returns, in the order of the lines, what follows
\* the leading marker ('-', '*', a bullet character or an ordinal) of every
\* line that starts with one after trimming and has text after it; every
\* other line contributes nothing.
C27_ListItems ==
    call.fn = "_extract_list_items" =>
        ret = ListItems(Split(input.text, "\n"))

---------------------------------------------------------------------------
(* Properties of _serialize_result *)

\* C13: every field of a ReviewResult is recoverable from its serialized
\* form: provider, model, timestamp, summary, strengths, issues with their
\* severity, suggestions with their priority, token usage and estimated cost
\* are read back from the key of the same name, and the raw response is
\* determined too, so that a result with another raw response is serialized
\* differently.
C13_RoundTrip ==
    call.fn = "_serialize_result" =>
        /\ ret.provider = input.provider
        /\ ret.model = input.model
        /\ ret.summary = input.summary
        /\ ret.strengths = input.strengths
        /\ Len(ret.issues) = Len(input.issues)
        /\ Len(ret.suggestions) = Len(input.suggestions)
        /\ ret.estimated_cost = input.estimated_cost
        /\ \A other \in {[input EXCEPT !.raw_response = None],
                          [input EXCEPT !.raw_response = Str(Chars("other"))]} :
              _serialize_result(other) = ret => other = input

---------------------------------------------------------------------------
(* Properties of get_diff *)

HasPath(d) == d.a_path # <<>> \/ d.b_path # <<>>

WithPath(ds) == SelectSeq(ds, HasPath)

KnownCommit(h) == \E c \in diffs.commits : c.hexsha = h

C15_DecodeFailureIsolated ==
    call.fn = "_process_diffs" =>
        LET records == WithPath(diffs.staged)
        IN  /\ Len(ret.files) = Len(records)
            /\ \A k \in 1..Len(records) :
                 /\ ret.files[k].path \in {records[k].a_path, records[k].b_path}
                 /\ ~records[k].diff.valid =>
                       /\ ret.files[k].patch = None
                       /\ ret.files[k].additions = 0
                       /\ ret.files[k].deletions = 0

C15_Witness ==
    /\ call.fn = "_process_diffs"
    /\ Len(diffs.staged) = 3
    /\ ~diffs.staged[2].diff.valid
    /\ Len(ret.files) = 3
    /\ ret.files[2].patch = None
    /\ ~ret.files[1].patch.none
    /\ ~ret.files[3].patch.none

\* the number of lines of the text that begin with sign and not with header
Begin(text, sign, header) ==
    Cardinality({i \in 1..Len(Split(text, "\n")) :
                    /\ StartsWith(Split(text, "\n")[i], sign)
                    /\ ~StartsWith(Split(text, "\n")[i], header)})

\* C28: every FileChange of _process_diffs has as additions the number of
\* patch lines that begin with '+' and not with '+++', as deletions the
\* number that begin with '-' and not with '---', and 0 for both when it
\* has no patch; two FileChanges of the same patch text have the same counts.
C28_PatchCounts ==
    call.fn = "_process_diffs" =>
        /\ \A k \in 1..Len(ret.files) :
             LET file == ret.files[k]
             IN  IF file.patch.none
                 THEN file.additions = 0 /\ file.deletions = 0
                 ELSE /\ file.additions = Begin(file.patch.text, Chars("+"), Chars("+++"))
                      /\ file.deletions = Begin(file.patch.text, Chars("-"), Chars("---"))
        /\ \A j, k \in 1..Len(ret.files) :
             ret.files[j].patch = ret.files[k].patch =>
                 /\ ret.files[j].additions = ret.files[k].additions
                 /\ ret.files[j].deletions = ret.files[k].deletions

C28_Witness ==
    /\ call.fn = "_process_diffs"
    /\ Len(ret.files) = 3
    /\ ret.files[1].patch = Str(Chars("+++ b/b.log\n+l"))
    /\ ret.files[1].additions = 1
    /\ ret.files[2].patch = Str(Chars("--- a\n+x\n-y\n-z"))
    /\ ret.files[2].deletions = 2
    /\ ret.files[3].patch = None
    /\ ret.files[3].additions = 0

RecordPaths(ds) ==
    [k \in 1..Len(ds) |-> IF ds[k].b_path # <<>> THEN ds[k].b_path ELSE ds[k].a_path]

\* C16: for the working-tree scope the files are those of the staged records
\* followed by those of the unstaged records, one for each record that has a
\* path and none dropped as a duplicate.
C16_WorkingTreeUnion ==
    (call.fn = "get_diff" /\ ~call.staged /\ call.commit_hash = <<>> /\ ~ret.raised) =>
        /\ Paths(ret.value.files)
             = RecordPaths(WithPath(diffs.staged)) \o RecordPaths(WithPath(diffs.unstaged))
        /\ Len(ret.value.files)
             = Len(WithPath(diffs.staged)) + Len(WithPath(diffs.unstaged))

C16_Witness ==
    /\ call.fn = "get_diff" /\ ~call.staged /\ call.commit_hash = <<>> /\ ~ret.raised
    /\ Len(diffs.staged) = 2
    /\ Len(diffs.unstaged) = 1
    /\ Len(ret.value.files) = 3
    /\ ret.value.files[1].path = ret.value.files[3].path

---------------------------------------------------------------------------
(* Properties of run_review after the provider call *)

ProviderFailed == pc = "failed" /\ provider_calls # <<>>

Saved == review_files # <<>>

TodosCreated == todo_files # <<>>

Displayed == \E k \in 1..Len(console) : console[k] = Chars("Review Complete!")

\* C17: when the provider call fails, run_review fails with an error that
\* carries the provider's message and nothing is saved, no TODO items are
\* created and no summary is displayed; a review is saved only after the
\* provider returned a result, TODO items are created only after the save
\* and the summary is displayed only after both.
C17_ProviderFailure ==
    /\ ProviderFailed =>
          /\ \E e \in ProviderErrors : error = "Review failed: " \o e
          /\ ~Saved /\ ~TodosCreated /\ ~Displayed
          /\ result = <<>>
    /\ Saved => result # <<>> /\ review_files = <<result>>
    /\ TodosCreated => Saved
    /\ Displayed => Saved /\ (result.suggestions # <<>> => TodosCreated)

C17_Witness ==
    /\ ProviderFailed
    /\ error = "Review failed: Claude review failed: Request timed out."
    /\ ~Saved /\ ~TodosCreated /\ ~Displayed

---------------------------------------------------------------------------
(* Properties of the TODO storage *)

LastCall == calls[Len(calls)]

Returned(fn) == calls # <<>> /\ LastCall.fn = fn /\ LastCall.ret = TRUE

OnlyCreateTodo == \A k \in 1..Len(calls) : calls[k].fn = "create_todo"

IdsOf(todos) == [i \in 1..Len(todos) |-> todos[i].id]

Count(todos, todo_id) == Cardinality({i \in 1..Len(todos) : todos[i].id = todo_id})

\* C18: after n create_todo calls, several of them within one second
\* included, get_active_todos returns n items, one for each call, with
\* distinct ids.
C18_CreatesDoNotInterfere ==
    OnlyCreateTodo =>
        LET active == get_active_todos(todo_dir)
        IN  /\ Len(active) = Len(calls)
            /\ \A k \in 1..Len(calls) : Count(active, calls[k].todo_id) = 1
            /\ \A i, j \in 1..Len(active) : active[i].id = active[j].id => i = j

\* C19: after mark_completed(id) returned True the TODO is not among the
\* active ones and is among the completed ones, and as many items are
\* stored as before; when the TODO was completed already the call changes
\* nothing.
C19_MarkCompleted ==
    Returned("mark_completed") =>
        /\ Count(get_active_todos(todo_dir), LastCall.todo_id) = 0
        /\ Count(get_completed_todos(todo_dir), LastCall.todo_id) >= 1
        /\ Len(get_all_todos(todo_dir)) = Len(get_all_todos(before))
        /\ Count(get_active_todos(before), LastCall.todo_id) = 0 => todo_dir = before

ExceptId(todos, todo_id) == SelectSeq(todos, LAMBDA todo : todo.id # todo_id)

\* C20: after delete_todo(id) returned True no TODO with that id is returned
\* by get_all_todos or get_todo_by_id, and the TODOs with another id are
\* returned as before.
C20_DeleteTodo ==
    Returned("delete_todo") =>
        /\ Count(get_all_todos(todo_dir), LastCall.todo_id) = 0
        /\ get_todo_by_id(todo_dir, LastCall.todo_id) = <<>>
        /\ ExceptId(get_all_todos(todo_dir), LastCall.todo_id)
             = ExceptId(get_all_todos(before), LastCall.todo_id)

Mutators == {"mark_completed", "mark_active", "delete_todo", "update_todo"}

\* C21: mark_completed, mark_active, delete_todo and update_todo called with
\* an id of no stored TODO return False and leave the files of the TODO
\* directory and their contents as they were.
C21_UnknownIdNoChange ==
    (/\ calls # <<>>
     /\ LastCall.fn \in Mutators
     /\ Count(LoadAll(before), LastCall.todo_id) = 0) =>
        /\ LastCall.ret = FALSE
        /\ todo_dir = before

C21_Witness ==
    /\ calls # <<>>
    /\ LastCall.fn = "update_todo"
    /\ LastCall.todo_id = Chars("todo-ffffffff")
    /\ LastCall.ret = FALSE
    /\ Len(before) = 2
    /\ todo_dir = before

\* C29: whatever reviews and create_todo calls have been made, no two stored
\* TODO items have the same id, so that an id names at most one stored item.
C29_UniqueIds ==
    \A i, j \in 1..Len(LoadAll(todo_dir)) :
        LoadAll(todo_dir)[i].id = LoadAll(todo_dir)[j].id => i = j

Updaters == {"mark_completed", "mark_active", "update_todo"}

\* C30: after mark_completed, mark_active or update_todo returned True the
\* directory holds the same files with as many records as before, and every
\* record that differs from what it was is the record of the item that
\* get_todo_by_id returned for the id: no record of another item is changed
\* or replaced.
C30_OnlyTargetRewritten ==
    (calls # <<>> /\ LastCall.fn \in Updaters /\ LastCall.ret = TRUE) =>
        /\ Len(todo_dir) = Len(before)
        /\ \A f \in 1..Len(before) :
             /\ todo_dir[f].name = before[f].name
             /\ Len(todo_dir[f].data) = Len(before[f].data)
             /\ \A i \in 1..Len(before[f].data) :
                  todo_dir[f].data[i] # before[f].data[i] =>
                      <<_parse_todo_item(before[f].data[i])>>
                          = get_todo_by_id(before, LastCall.todo_id)

====
